---- MODULE Spec2Model ----
(***************************************************************************)
(* Model of the telegram auto-delete bot (src/main.py): the job queue as a *)
(* named-timer store, the handlers set_timer_from_command,                 *)
(* default_set_timer and unset running one at a time on the dispatcher     *)
(* thread, and the job runner firing purge_message concurrently with them. *)
(* A handler is split at every access to the job queue, so that a firing   *)
(* may fall between get_jobs_by_name (line 62) and schedule_removal        *)
(* (line 66).                                                              *)
(*                                                                         *)
(* Spec calls each handler for the update it is written for; SpecRouted    *)
(* sends every update through the dispatcher's handler list (lines         *)
(* 189-193); SpecLive is Spec with the scheduler's fairness and a clock    *)
(* that reaches every registered timer.                                    *)
(***************************************************************************)
EXTENDS Integers, Sequences, FiniteSets, TLC

\* ------------------------------------------------------------------ bounds
MaxOps == 2            \* updates handled in one run
MaxSubject == 1        \* commands are replies to messages up to this id
MaxTime == 1           \* the clock stops advancing here

\* ------------------------------------------------------- program constants
CHATS == {1, 2}
DEFAULT_LIFE_TIME == 1

\* the delays given to /set: a negative one, at once, or the default
Dues == {-1, 0, DEFAULT_LIFE_TIME}

\* the message of each chat that was posted before the bot started
Posted == {1}

VARIABLES now, nextMsg, jobs, nextJob, h, calls, fired, cancelled, ops

vars == <<now, nextMsg, jobs, nextJob, h, calls, fired, cancelled, ops>>

\* an update brings at most two new messages: the command and the answer
MaxMsg == Cardinality(Posted) + 2 * MaxOps

MsgIds == 1..MaxMsg

\* a handler registers at most three timers: two leaves and the root
MaxJobs == 3 * MaxOps

Range(s) == {s[i] : i \in 1..Len(s)}

\* ------------------------------------------------------------ job names
Digit(d) == CASE d = 0 -> "0" [] d = 1 -> "1" [] d = 2 -> "2" [] d = 3 -> "3"
              [] d = 4 -> "4" [] d = 5 -> "5" [] d = 6 -> "6" [] d = 7 -> "7"
              [] d = 8 -> "8" [] d = 9 -> "9"

RECURSIVE Str(_)
\* str(n) of a non-negative integer, as the f-string renders it
Str(n) == IF n < 10 THEN <<Digit(n)>> ELSE Str(n \div 10) \o <<Digit(n % 10)>>

\* the default value of get_job_name's parameter parent
ROOT == <<"r", "o", "o", "t">>

\* f"{parent}_{child}"; parent is ROOT or the rendering of a message id
get_job_name(child, parent) == parent \o <<"_">> \o Str(child)

RootName(message_id) == get_job_name(message_id, ROOT)

\* ChildName with a fault: the child and the subject change places
ChildName_Swapped(child, message_id) == get_job_name(message_id, Str(child))

ChildName(child, message_id) == get_job_name(child, Str(message_id))

\* ------------------------------------------------------------ job queue
RECURSIVE InOrder(_)
\* the jobs of S as the scheduler lists them: by run time, then registration
InOrder(S) ==
  IF S = {} THEN <<>>
  ELSE LET j == CHOOSE x \in S : \A y \in S :
                  \/ x.fireAt < y.fireAt
                  \/ x.fireAt = y.fireAt /\ x.id <= y.id
       IN <<j>> \o InOrder(S \ {j})

\* get_jobs_by_name with a fault: the lookup finds nothing
get_jobs_by_name_None(name) == <<>>

get_jobs_by_name(name) == InOrder({j \in jobs : j.name = name})

\* job_queue.run_once(purge_message, when, context=ctx, name=name)
run_once(Q, id, when, name, chat_id, message_id, is_child, children) ==
  Q \cup {[id |-> id, name |-> name, fireAt |-> when, chat_id |-> chat_id,
           message_id |-> message_id, is_child_message |-> is_child,
           children |-> children]}

\* schedule_removal with a fault: the job is left in the store
schedule_removal_Keep(Q, job) == Q

\* job.schedule_removal(): the job leaves the store at once
schedule_removal(Q, job) == {j \in Q : j.id # job.id}

\* bot.delete_message either works, is refused (BadRequest), or fails in
\* another way (TimedOut, NetworkError, RetryAfter, Unauthorized, ...)
DeleteOutcomes == {"ok", "BadRequest", "TelegramError"}

\* delete_message (lines 22-26): only BadRequest is caught
DeleteRaises(outcome) == outcome \notin {"ok", "BadRequest"}

Bump(c, chat_id, message_id) ==
  [c EXCEPT ![<<chat_id, message_id>>] = @ + 1]

\* ------------------------------------------------------------ handler
Idle ==
  [pc |-> "idle", op |-> "none", chat_id |-> 0, message_id |-> 0, cmd |-> 0,
   t0 |-> 0, due |-> 0, delete_at |-> 0, children |-> <<>>,
   show_response |-> FALSE, children_ids |-> <<>>, job_removed |-> FALSE,
   stack |-> <<>>, error |-> "none", removed_roots |-> <<>>, deleted |-> <<>>,
   text |-> "none", reply_to |-> 0, reply |-> "none"]

Frame(found) == [found |-> found, kids |-> <<>>, parent |-> 0]

RECURSIVE Unwind(_)
\* frames whose loops are exhausted return to their callers (line 84)
Unwind(stack) ==
  IF stack = <<>> THEN <<>>
  ELSE LET f == stack[Len(stack)]
       IN IF f.found = <<>> /\ f.kids = <<>>
          THEN Unwind(SubSeq(stack, 1, Len(stack) - 1))
          ELSE stack

Init ==
  /\ now = 0
  /\ nextMsg = [c \in CHATS |-> Cardinality(Posted) + 1]
  /\ jobs = {}
  /\ nextJob = 1
  /\ h = Idle
  /\ calls = [p \in CHATS \X MsgIds |-> 0]
  /\ fired = {}
  /\ cancelled = {}
  /\ ops = 0

\* AfterRemove with a fault: the result is always True
AfterRemove_True(hh, removed) ==
  IF hh.op = "unset"
  THEN [hh EXCEPT !.job_removed = TRUE, !.stack = <<>>,
                  !.pc = "unset_delete"]
  ELSE [hh EXCEPT !.job_removed = TRUE, !.stack = <<>>,
                  !.pc = IF hh.children # <<>> THEN "children"
                         ELSE IF hh.show_response THEN "reply" ELSE "root"]

\* the handler leaves remove_job_if_exists with its result (lines 97, 174)
AfterRemove(hh, removed) ==
  IF hh.op = "unset"
  THEN [hh EXCEPT !.job_removed = removed, !.stack = <<>>,
                  !.pc = IF removed THEN "unset_delete" ELSE "done"]
  ELSE [hh EXCEPT !.job_removed = removed, !.stack = <<>>,
                  !.pc = IF hh.children # <<>> THEN "children"
                         ELSE IF hh.show_response THEN "reply" ELSE "root"]

\* BeginRemove with a fault: the old batch is never looked up, so never
\* cancelled
BeginRemove_NoCancel(hh, name) == AfterRemove(hh, FALSE)

\* remove_job_if_exists, lines 62-64: look the name up; no job, return False
BeginRemove(hh, name) ==
  LET found == get_jobs_by_name(name)
  IN IF found = <<>> THEN AfterRemove(hh, FALSE)
     ELSE [hh EXCEPT !.pc = "remove", !.stack = <<Frame(found)>>]

\* the handler stops on an exception, which the dispatcher logs; error is
\* "JobLookupError", or the call that raised a TelegramError
Abort(hh, err) == [hh EXCEPT !.pc = "done", !.error = err, !.stack = <<>>]

\* set_timer, lines 94-97: the delete time, then the cancel of the old batch
set_timer(op, chat_id, message_id, due, children, show_response) ==
  BeginRemove([Idle EXCEPT !.op = op, !.chat_id = chat_id,
                           !.message_id = message_id, !.t0 = now, !.due = due,
                           !.delete_at = now + due, !.children = children,
                           !.show_response = show_response],
              RootName(message_id))

\* default_set_timer (lines 166-167) for the message of an update: the
\* message itself is the subject, whatever its text and whatever it replies to
default_set_timer(c, text, reply_to) ==
  /\ h.pc = "idle"
  /\ ops < MaxOps
  /\ ops' = ops + 1
  /\ nextMsg' = [nextMsg EXCEPT ![c] = @ + 1]
  /\ h' = [set_timer("default", c, nextMsg[c], DEFAULT_LIFE_TIME, <<>>, FALSE)
             EXCEPT !.text = text, !.reply_to = reply_to]
  /\ UNCHANGED <<now, jobs, nextJob, calls, fired, cancelled>>

\* an ordinary message arrives in chat c (MessageHandler, line 192)
DefaultSetTimer(c) == default_set_timer(c, "text", 0)

\* set_timer_from_command with a fault: no delay is refused
Refused_Never(due) == FALSE

\* set_timer_from_command, line 158: a negative delay is refused
Refused(due) == due < 0

\* "/set due" arrives in chat c as a reply to message r (lines 142-163); the
\* command message and the bot's answer both need an id. A refused delay is
\* answered (lines 159-160, the answer may fail) and set_timer is not called.
SetTimerFromCommand(c, r, due) ==
  /\ h.pc = "idle"
  /\ ops < MaxOps
  /\ ops' = ops + 1
  /\ r < nextMsg[c]
  /\ IF Refused(due)
     THEN \E sent \in BOOLEAN :
            /\ nextMsg' = [nextMsg EXCEPT ![c] = @ + (IF sent THEN 2 ELSE 1)]
            /\ h' = [Idle EXCEPT !.pc = "done", !.op = "refuse", !.chat_id = c,
                                 !.message_id = r, !.cmd = nextMsg[c],
                                 !.t0 = now, !.due = due, !.text = "set",
                                 !.reply_to = r,
                                 !.reply = IF sent THEN "refused" ELSE "none",
                                 !.error = IF sent THEN "none"
                                           ELSE "reply_text"]
     ELSE /\ nextMsg' = [nextMsg EXCEPT ![c] = @ + 1]
          /\ h' = [set_timer("set", c, r, due, <<nextMsg[c]>>, TRUE)
                     EXCEPT !.cmd = nextMsg[c], !.text = "set", !.reply_to = r]
  /\ UNCHANGED <<now, jobs, nextJob, calls, fired, cancelled>>

\* unset is called for a "/unset" of chat c that replies to message r
\* (lines 170-174)
Unset(c, r) ==
  /\ h.pc = "idle"
  /\ ops < MaxOps
  /\ ops' = ops + 1
  /\ r < nextMsg[c]
  /\ nextMsg' = [nextMsg EXCEPT ![c] = @ + 1]
  /\ h' = BeginRemove([Idle EXCEPT !.op = "unset", !.chat_id = c,
                                   !.message_id = r, !.cmd = nextMsg[c],
                                   !.t0 = now, !.text = "unset",
                                   !.reply_to = r],
                      RootName(r))
  /\ UNCHANGED <<now, jobs, nextJob, calls, fired, cancelled>>

\* ------------------------------------------------------------ dispatcher
\* the handlers in the order of their registration (lines 189-193)
Handlers == <<"start", "help", "set", "message", "unset">>

\* the texts of the updates: an ordinary message, "/set ...", "/unset"
Texts == {"text", "set", "unset"}

\* whether a handler takes a message of a configured chat: a CommandHandler
\* takes its own command, the MessageHandler (filter: the chat only) takes
\* every message
check_update(handler, text) ==
  IF handler = "message" THEN TRUE ELSE text = handler

\* the dispatcher gives an update to the first handler that takes it
Route(text) ==
  Handlers[CHOOSE i \in 1..Len(Handlers) :
             /\ check_update(Handlers[i], text)
             /\ \A k \in 1..(i - 1) : ~check_update(Handlers[k], text)]

\* an update of chat c arrives, a message with this text that replies to
\* message r, and the dispatcher calls the handler it is routed to
Dispatch(c, r, text, due) ==
  /\ r < nextMsg[c]
  /\ LET handler == Route(text)
     IN CASE handler = "set" -> SetTimerFromCommand(c, r, due)
          [] handler = "unset" -> Unset(c, r)
          [] handler = "message" -> default_set_timer(c, text, r)
          [] OTHER -> FALSE

\* remove_job_if_exists, one pass of a loop (lines 65-83) on the innermost call
RemoveStep ==
  /\ h.pc = "remove"
  /\ LET n == Len(h.stack)
         f == h.stack[n]
         below == SubSeq(h.stack, 1, n - 1)
         Continue(hh, stack) ==
           LET rest == Unwind(stack)
           IN IF rest = <<>> THEN AfterRemove(hh, TRUE)
              ELSE [hh EXCEPT !.stack = rest]
     IN IF f.kids # <<>>
        THEN \* lines 82-83, and lines 62-64 of the call for this child
          LET found == get_jobs_by_name(ChildName(Head(f.kids), f.parent))
              top == [f EXCEPT !.kids = Tail(f.kids)]
          IN /\ h' = Continue(h, IF found = <<>> THEN below \o <<top>>
                                 ELSE below \o <<top, Frame(found)>>)
             /\ UNCHANGED <<jobs, calls, cancelled>>
        ELSE \* lines 65-81 for the next job of current_jobs
          LET job == Head(f.found)
              top == [f EXCEPT !.found = Tail(f.found)]
          IN IF job.id \notin {j.id : j \in jobs}
             THEN \* the job has run meanwhile: job.remove() raises
               /\ h' = Abort(h, "JobLookupError")
               /\ UNCHANGED <<jobs, calls, cancelled>>
             ELSE
               /\ jobs' = schedule_removal(jobs, job)
               /\ cancelled' = cancelled \cup {job.id}
               /\ IF job.chat_id = 0 \/ job.message_id = 0
                  THEN /\ h' = Continue(h, below \o <<top>>)
                       /\ calls' = calls
                  ELSE IF job.is_child_message
                  THEN \E o \in DeleteOutcomes :
                         LET hd == [h EXCEPT !.deleted =
                                      Append(@, <<job.chat_id, job.message_id>>)]
                         IN /\ calls' = Bump(calls, job.chat_id, job.message_id)
                            /\ h' = IF DeleteRaises(o)
                                    THEN Abort(hd, "delete_message")
                                    ELSE Continue(hd, below \o <<top>>)
                  ELSE /\ calls' = calls
                       /\ h' = Continue(
                            [h EXCEPT !.removed_roots = Append(@, job)],
                            below \o <<[top EXCEPT !.kids = job.children,
                                                   !.parent = job.message_id]>>)
  /\ UNCHANGED <<now, nextMsg, nextJob, fired, ops>>

\* set_timer, lines 102-113: a leaf timer for one of the extra messages
RegisterChild ==
  /\ h.pc = "children"
  /\ LET child == Head(h.children)
     IN /\ jobs' = run_once(jobs, nextJob, h.delete_at,
                            ChildName(child, h.message_id),
                            h.chat_id, child, TRUE, <<>>)
        /\ h' = [h EXCEPT !.children = Tail(@),
                          !.children_ids = Append(@, child),
                          !.pc = IF Tail(h.children) # <<>> THEN "children"
                                 ELSE IF h.show_response THEN "reply"
                                 ELSE "root"]
  /\ nextJob' = nextJob + 1
  /\ UNCHANGED <<now, nextMsg, calls, fired, cancelled, ops>>

\* set_timer, lines 114-129: the answer is sent, saying whether an old timer
\* was removed, and gets a leaf timer; or reply_text raises
Reply ==
  /\ h.pc = "reply"
  /\ \/ /\ nextMsg' = [nextMsg EXCEPT ![h.chat_id] = @ + 1]
        /\ jobs' = run_once(jobs, nextJob, h.delete_at,
                            ChildName(nextMsg[h.chat_id], h.message_id),
                            h.chat_id, nextMsg[h.chat_id], TRUE, <<>>)
        /\ nextJob' = nextJob + 1
        /\ h' = [h EXCEPT !.children_ids = Append(@, nextMsg[h.chat_id]),
                          !.reply = IF h.job_removed THEN "old_removed"
                                    ELSE "plain",
                          !.pc = "root"]
     \/ /\ h' = Abort(h, "reply_text")
        /\ UNCHANGED <<nextMsg, jobs, nextJob>>
  /\ UNCHANGED <<now, calls, fired, cancelled, ops>>

\* set_timer, lines 130-139: the root timer, with the ids of its children
RegisterRoot ==
  /\ h.pc = "root"
  /\ jobs' = run_once(jobs, nextJob, h.delete_at, RootName(h.message_id),
                      h.chat_id, h.message_id, FALSE, h.children_ids)
  /\ nextJob' = nextJob + 1
  /\ h' = [h EXCEPT !.pc = "done"]
  /\ UNCHANGED <<now, nextMsg, calls, fired, cancelled, ops>>

\* unset, lines 175-176: the /unset message itself is deleted
UnsetDelete ==
  /\ h.pc = "unset_delete"
  /\ \E o \in DeleteOutcomes :
       /\ calls' = Bump(calls, h.chat_id, h.cmd)
       /\ h' = [h EXCEPT !.pc = "done",
                         !.deleted = Append(@, <<h.chat_id, h.cmd>>),
                         !.error = IF DeleteRaises(o)
                                   THEN "unset:delete_message" ELSE "none"]
  /\ UNCHANGED <<now, nextMsg, jobs, nextJob, fired, cancelled, ops>>

\* the handler is over and the dispatcher takes the next update; "done" is
\* the instant of the handler's return, at which no other step is taken
Return ==
  /\ h.pc = "done"
  /\ h' = Idle
  /\ UNCHANGED <<now, nextMsg, jobs, nextJob, calls, fired, cancelled, ops>>

\* purge_message with a fault: it returns before the delete_message call
purge_message_Skip(ctx) == {}

\* purge_message with a fault: a root's firing also deletes the children it
\* lists
purge_message_Cascade(ctx) ==
  {<<ctx.chat_id, ctx.message_id>>}
    \cup {<<ctx.chat_id, ch>> : ch \in Range(ctx.children)}

\* purge_message (lines 43-54) for a job whose context is ctx: the messages
\* it calls delete_message for
purge_message(ctx) ==
  IF ctx.chat_id = 0 \/ ctx.message_id = 0 THEN {}
  ELSE {<<ctx.chat_id, ctx.message_id>>}

\* a due job runs once: it leaves the store and purge_message is called
FireJob(j) ==
  /\ h.pc # "done"
  /\ j \in jobs
  /\ j.fireAt <= now
  /\ jobs' = jobs \ {j}
  /\ fired' = fired \cup {j.id}
  /\ calls' = [p \in DOMAIN calls |->
                 IF p \in purge_message(j) THEN calls[p] + 1 ELSE calls[p]]
  /\ UNCHANGED <<now, nextMsg, nextJob, h, cancelled, ops>>

Tick ==
  /\ h.pc # "done"
  /\ now < MaxTime
  /\ now' = now + 1
  /\ UNCHANGED <<nextMsg, jobs, nextJob, h, calls, fired, cancelled, ops>>

Next ==
  \/ \E c \in CHATS : DefaultSetTimer(c)
  \/ \E c \in CHATS, r \in 1..MaxSubject, due \in Dues :
       SetTimerFromCommand(c, r, due)
  \/ \E c \in CHATS, r \in 1..MaxSubject : Unset(c, r)
  \/ RemoveStep
  \/ RegisterChild
  \/ Reply
  \/ RegisterRoot
  \/ UnsetDelete
  \/ Return
  \/ \E j \in jobs : FireJob(j)
  \/ Tick

\* each handler as an operation of its own, called for an update it is
\* written for
Spec == Init /\ [][Next]_vars

\* the clock as the scheduler sees it: it goes on while a timer is due later
Advance ==
  /\ h.pc # "done"
  /\ now < MaxTime \/ \E j \in jobs : now < j.fireAt
  /\ now' = now + 1
  /\ UNCHANGED <<nextMsg, jobs, nextJob, h, calls, fired, cancelled, ops>>

\* a handler runs on to its end (the dispatcher thread is never starved)
HandlerStep ==
  RemoveStep \/ RegisterChild \/ Reply \/ RegisterRoot \/ UnsetDelete \/ Return

NextLive ==
  \/ \E c \in CHATS : DefaultSetTimer(c)
  \/ \E c \in CHATS, r \in 1..MaxSubject, due \in Dues :
       SetTimerFromCommand(c, r, due)
  \/ \E c \in CHATS, r \in 1..MaxSubject : Unset(c, r)
  \/ HandlerStep
  \/ \E j \in jobs : FireJob(j)
  \/ Advance

\* the scheduler's thread runs every timer that is due, time passes, and a
\* handler that has begun runs on
SpecLive ==
  /\ Init
  /\ [][NextLive]_vars
  /\ WF_vars(Advance)
  /\ WF_vars(\E j \in jobs : FireJob(j))
  /\ WF_vars(HandlerStep)

\* the updates as the dispatcher routes them; unset is then never called, so
\* its last step (UnsetDelete) has no place here
NextRouted ==
  \/ \E c \in CHATS, r \in 1..MaxSubject, text \in Texts, due \in Dues :
       Dispatch(c, r, text, due)
  \/ RemoveStep
  \/ RegisterChild
  \/ Reply
  \/ RegisterRoot
  \/ Return
  \/ \E j \in jobs : FireJob(j)
  \/ Tick

SpecRouted == Init /\ [][NextRouted]_vars

\* ------------------------------------------------------------ claims
\* the handler has just returned without an exception
Returned == h.pc = "done" /\ h.error = "none"

\* the root timers the finished call removed for its own subject
Superseded ==
  {R \in Range(h.removed_roots) :
     R.chat_id = h.chat_id /\ R.message_id = h.message_id}

\* the root timers registered for the subject of the handler's call
OwnRoots ==
  {k \in jobs : /\ ~k.is_child_message
                /\ k.chat_id = h.chat_id
                /\ k.message_id = h.message_id}

Count(s, x) == Cardinality({i \in 1..Len(s) : s[i] = x})

\* C1: when a set_timer call has returned, exactly one root timer is
\* registered for its subject, and delete_message has been called for every
\* child of each batch the call removed.
C1_OneRootAfterSetTimer ==
  (Returned /\ h.op \in {"set", "default"}) =>
    /\ Cardinality(OwnRoots) = 1
    /\ \A R \in Range(h.removed_roots) : \A ch \in Range(R.children) :
         calls[<<R.chat_id, ch>>] >= 1

\* a second /set on a subject has returned, having removed a batch with
\* children
C1_Witness ==
  /\ Returned
  /\ h.op = "set"
  /\ \E R \in Superseded : R.children # <<>>

\* C2: a call that cancels a root makes exactly one delete_message call for
\* each child the root lists and none for the root's subject.
C2_CascadeExactlyOnce ==
  h.pc = "done" =>
    \A R \in Range(h.removed_roots) :
      /\ \A ch \in Range(R.children) :
           Count(h.deleted, <<R.chat_id, ch>>) = 1
      /\ Count(h.deleted, <<R.chat_id, R.message_id>>) = 0

\* C3: the firing of a root timer makes one delete_message call, for its
\* subject, and takes nothing but the root itself out of the store.
C3_RootFiringIndependent ==
  [][\A j \in jobs :
       (j.id \in fired' /\ j.id \notin fired /\ ~j.is_child_message) =>
         /\ calls' = Bump(calls, j.chat_id, j.message_id)
         /\ jobs' = jobs \ {j}]_vars

\* the root of the only batch registered so far (two leaves, then the root)
\* has fired, its subject has had its one delete_message call, and a leaf
\* timer of the batch is still registered
C3_Witness ==
  /\ nextJob = 4
  /\ 3 \in fired
  /\ \E j \in jobs :
       /\ j.is_child_message
       /\ j.name = ChildName(j.message_id, 1)
       /\ calls[<<j.chat_id, 1>>] = 1

\* C4: the root name derived for the subject of a call is the name of no
\* other subject's root timer (two distinct subjects, chat id and message
\* id, never derive one root name), and no root name is a child name.
C4_NamesInjective ==
  /\ \A j \in jobs :
       (h.op # "none" /\ ~j.is_child_message
          /\ <<j.chat_id, j.message_id>> # <<h.chat_id, h.message_id>>)
         => j.name # RootName(h.message_id)
  /\ \A m1, m2, m3 \in MsgIds : RootName(m1) # ChildName(m2, m3)

\* C5: /unset on a subject that has no root timer ends at once with False:
\* no delete_message call, the store unchanged.
C5_UnsetWithoutBatch ==
  [][(/\ h.pc = "idle"
      /\ h'.op = "unset"
      /\ ~\E j \in jobs : /\ ~j.is_child_message
                          /\ j.chat_id = h'.chat_id
                          /\ j.message_id = h'.message_id)
       => (/\ h'.pc = "done"
           /\ ~h'.job_removed
           /\ jobs' = jobs
           /\ calls' = calls)]_vars

\* C6: a timer that was cancelled is out of the store and never fires, and
\* an /unset call makes no delete_message call for its subject.
C6_CancelledNeverFires ==
  /\ \A id \in cancelled :
       /\ id \notin fired
       /\ \A k \in jobs : k.id # id
  /\ h.op = "unset" => <<h.chat_id, h.message_id>> \notin Range(h.deleted)

\* /unset has removed the root of its subject after the root's time had come
C6_Witness ==
  /\ Returned
  /\ h.op = "unset"
  /\ \E R \in Superseded : R.id \in cancelled /\ R.fireAt <= now

\* C7: when /set ends on a subject whose batch was pending, every child of
\* the old batch has had its delete_message call, one root for the subject is
\* registered for the call time plus due with the new children, and none of
\* the new children is deleted before that time.
C7_Supersession ==
  (h.pc = "done" /\ h.op = "set" /\ Superseded # {}) =>
    /\ \A R \in Superseded : \A ch \in Range(R.children) :
         calls[<<R.chat_id, ch>>] >= 1
    /\ \E j \in jobs :
         /\ OwnRoots = {j}
         /\ j.fireAt = h.t0 + h.due
         /\ j.children = h.children_ids
         /\ h.cmd \in Range(j.children)
    /\ now < h.t0 + h.due =>
         \A ch \in Range(h.children_ids) : calls[<<h.chat_id, ch>>] = 0

\* C8: a cancel that races a firing of the same timer does not fail, and no
\* timer is both fired and cancelled.
C8_RaceResolved ==
  /\ h.error # "JobLookupError"
  /\ fired \cap cancelled = {}

C10_CascadeSurvivesFailure ==
  h.pc = "done" =>
    /\ h.error # "delete_message"
    /\ h.error # "JobLookupError" =>
         \A R \in Range(h.removed_roots) : \A ch \in Range(R.children) :
           ~\E j \in jobs : j.name = ChildName(ch, R.message_id)

\* C11: a /set with a negative delay is refused at once: set_timer is not
\* called, no timer is registered, none is cancelled and no delete_message
\* call is made.
C11_NegativeDelayRefused ==
  [][(h.pc = "idle" /\ h'.text = "set" /\ h'.due < 0) =>
       /\ h'.pc = "done"
       /\ h'.op = "refuse"
       /\ jobs' = jobs
       /\ nextJob' = nextJob
       /\ cancelled' = cancelled
       /\ calls' = calls]_vars

\* a /set with a negative delay has been refused while the batch of its
\* subject, root and leaves, is pending
C11_Witness ==
  /\ h.pc = "done"
  /\ h.op = "refuse"
  /\ h.due < 0
  /\ \E R \in jobs :
       /\ ~R.is_child_message
       /\ R.chat_id = h.chat_id
       /\ R.message_id = h.message_id
       /\ R.children # <<>>
       /\ \A ch \in Range(R.children) :
            /\ calls[<<R.chat_id, ch>>] = 0
            /\ \E k \in jobs : k.name = ChildName(ch, R.message_id)

\* C12: a /unset that replies to a message whose batch is pending is given
\* to unset, and when its handling ends the message it replies to has no root
\* timer.
C12_UnsetRouted ==
  [][/\ (/\ h.pc = "idle"
         /\ h'.text = "unset"
         /\ \E j \in jobs : /\ ~j.is_child_message
                            /\ j.chat_id = h'.chat_id
                            /\ j.message_id = h'.reply_to)
        => h'.op = "unset"
     /\ (h.pc # "done" /\ h'.pc = "done" /\ h'.text = "unset")
        => ~\E j \in jobs' : /\ ~j.is_child_message
                             /\ j.chat_id = h'.chat_id
                             /\ j.message_id = h'.reply_to]_vars

\* C13: when the handling of an ordinary message ends, the message has
\* exactly one root timer, set for the default delay after its arrival and
\* with no children, and no answer was sent.
C13_DefaultBatch ==
  (h.pc = "done" /\ h.op = "default") =>
    /\ h.reply = "none"
    /\ \E j \in jobs :
         /\ OwnRoots = {j}
         /\ j.children = <<>>
         /\ j.fireAt = h.t0 + DEFAULT_LIFE_TIME

C15_ChildList ==
  [][\A k \in jobs' \ jobs :
       IF k.is_child_message
       THEN /\ k.name = Str(h.message_id) \o <<"_">> \o Str(k.message_id)
            /\ k.chat_id = h.chat_id
            /\ k.fireAt = h.t0 + h.due
            /\ h'.children_ids = Append(h.children_ids, k.message_id)
       ELSE /\ k.children = h.children_ids
            /\ k.children = IF h.op = "set"
                            THEN <<h.cmd, nextMsg[h.chat_id] - 1>>
                            ELSE <<>>
            /\ k.chat_id = h.chat_id
            /\ k.message_id = h.message_id
            /\ k.fireAt = h.t0 + h.due
            /\ \A i \in 1..Len(k.children) :
                 LET id == k.id - Len(k.children) + i - 1
                 IN \/ id \in fired
                    \/ \E l \in jobs :
                         /\ l.id = id
                         /\ l.is_child_message
                         /\ l.message_id = k.children[i]
                         /\ l.chat_id = k.chat_id
                         /\ l.fireAt = k.fireAt
                         /\ l.name = Str(k.message_id) \o <<"_">>
                                       \o Str(k.children[i])]_vars

\* a /set has returned: the root of its subject lists the /set message and
\* the answer, and the leaf timers of both are in the store
C15_Witness ==
  /\ Returned
  /\ h.op = "set"
  /\ \E j \in OwnRoots :
       /\ j.children = <<h.cmd, h.cmd + 1>>
       /\ \A ch \in Range(j.children) :
            \E l \in jobs : l.is_child_message /\ l.message_id = ch
                              /\ l.id < j.id /\ l.id >= j.id - 2

\* C16: the answer to /set says that an old timer was removed exactly if the
\* subject had a root timer when set_timer was called, and the answer has a
\* leaf timer of the new batch.
C16_AnnouncesReplacement ==
  (h.op = "set" /\ h.pc = "root") =>
    /\ h.reply = "old_removed" <=> Superseded # {}
    /\ LET answer == h.children_ids[Len(h.children_ids)]
       IN \/ nextJob - 1 \in fired
          \/ \E l \in jobs : /\ l.id = nextJob - 1
                             /\ l.is_child_message
                             /\ l.chat_id = h.chat_id
                             /\ l.message_id = answer

\* C18: a handler takes out of the store only timers of its own subject, its
\* root and the leaves of its batch, and calls delete_message only for
\* messages of its own chat.
C18_OtherSubjectsUntouched ==
  [][(h.pc = "remove" /\ h'.op = h.op) =>
       /\ \A k \in jobs :
            k.id \in cancelled' \ cancelled =>
              /\ k.chat_id = h.chat_id
              /\ \/ ~k.is_child_message /\ k.message_id = h.message_id
                 \/ k.is_child_message
                      /\ k.name = ChildName(k.message_id, h.message_id)
       /\ \A p \in Range(h'.deleted) : p[1] = h.chat_id]_vars

\* C19: when set_timer ends because the answer could not be sent, its
\* subject has a root timer, and every leaf timer the call registered is
\* listed by a root timer of the subject.
C19_ReplyFailureKeepsRoot ==
  (h.pc = "done" /\ h.op = "set" /\ h.error = "reply_text") =>
    /\ OwnRoots # {}
    /\ \A l \in jobs :
         (/\ l.is_child_message
          /\ l.chat_id = h.chat_id
          /\ l.message_id \in Range(h.children_ids))
           => \E R \in OwnRoots : l.message_id \in Range(R.children)

\* C17: every timer in the store is in the end fired or cancelled; a timer
\* that has fired is not in the store; and a firing takes the timer out of
\* the store and makes exactly one delete_message call, for its message.
C17_TimersFire ==
  /\ \A id \in 1..MaxJobs :
       (\E j \in jobs : j.id = id) ~> (id \in fired \/ id \in cancelled)
  /\ [](\A j \in jobs : j.id \notin fired)
  /\ [][\A j \in jobs :
          j.id \in fired' \ fired =>
            /\ jobs' = jobs \ {j}
            /\ calls' = Bump(calls, j.chat_id, j.message_id)]_vars

\* the three timers of a /set batch have all fired, none was cancelled, and
\* the subject, the /set message and the answer have had one delete_message
\* call each
C17_Witness ==
  /\ nextJob = 4
  /\ fired = {1, 2, 3}
  /\ cancelled = {}
  /\ jobs = {}
  /\ \E c \in CHATS : \A msg \in 1..3 : calls[<<c, msg>>] = 1

====
